---- MODULE Spec2Model ----
(***************************************************************************)
(* Model of packages/wasm-simd/src/lib.rs: SIMDMath, the vectorised cosine *)
(* similarity kernels (cosine_similarity, batch_similarity,                *)
(* similarity_matrix) and their lane reductions.                           *)
(*                                                                         *)
(* f32 is modelled by a small binary floating-point format with the same   *)
(* structure as IEEE-754 binary32: round-to-nearest-even, gradual          *)
(* underflow, overflow to infinity, NaN.  A finite value is an integer     *)
(* count of units of 2^-FracBits; +0.0 and -0.0 are one value (the code    *)
(* only ever compares zeros with ==, which does not tell them apart).      *)
(***************************************************************************)
EXTENDS Integers, Sequences, FiniteSets, TLC

(* ------------------------------------------------------------------------ *)
(* The float format                                                         *)
(* ------------------------------------------------------------------------ *)

\* Significand bits (binary32 has 24).
Precision == 3
\* Largest exponent of the unit in the last place (binary32: 2^104 units of 2^-149).
MaxExp == 3
\* 1.0 is 2^FracBits units.
FracBits == 2

One == 2 ^ FracBits
MaxFinite == (2 ^ Precision - 1) * 2 ^ MaxExp
INF == 4 * MaxFinite
NAN == 5 * MaxFinite
\* The smallest positive (subnormal) value.

IsFinite(x) == x # NAN /\ x # INF /\ x # -INF

Abs(x) == IF x < 0 THEN -x ELSE x
Sgn(x) == IF x < 0 THEN -1 ELSE 1

\* The representable magnitude nearest to num/den units (num >= 0, den > 0),
\* ties to the even significand, INF when the rounded value exceeds MaxFinite.
RoundMag(num, den) ==
    IF 2 * num >= (2 * MaxFinite + 2 ^ MaxExp) * den THEN INF
    ELSE LET e == CHOOSE k \in 0..MaxExp :
                     /\ num < 2 ^ (Precision + k) * den
                     /\ (k = 0 \/ num >= 2 ^ (Precision + k - 1) * den)
             q == 2 ^ e * den
             fl == num \div q
             rem == num % q
             m == IF 2 * rem > q \/ (2 * rem = q /\ fl % 2 = 1) THEN fl + 1 ELSE fl
         IN  m * 2 ^ e

RoundF32(num, den) == IF num < 0 THEN -RoundMag(-num, den) ELSE RoundMag(num, den)

\* The finite values of the format, and all its values.
FiniteF32 == {s * m * 2 ^ e : s \in {-1, 1}, m \in 0..(2 ^ Precision - 1), e \in 0..MaxExp}
F32 == FiniteF32 \cup {INF, -INF, NAN}

\* a * b
f32_mul(a, b) ==
    IF a = NAN \/ b = NAN THEN NAN
    ELSE IF ~IsFinite(a) \/ ~IsFinite(b)
         THEN (IF a = 0 \/ b = 0 THEN NAN ELSE Sgn(a) * Sgn(b) * INF)
    ELSE RoundF32(a * b, One)

\* a + b
f32_add(a, b) ==
    IF a = NAN \/ b = NAN THEN NAN
    ELSE IF ~IsFinite(a) THEN (IF b = -a THEN NAN ELSE a)
    ELSE IF ~IsFinite(b) THEN b
    ELSE RoundF32(a + b, 1)

\* a * b + c with one rounding
f32_fma(a, b, c) ==
    IF a = NAN \/ b = NAN \/ c = NAN THEN NAN
    ELSE IF ~IsFinite(a) \/ ~IsFinite(b)
         THEN (IF a = 0 \/ b = 0 THEN NAN
               ELSE IF c = -(Sgn(a) * Sgn(b) * INF) THEN NAN
               ELSE Sgn(a) * Sgn(b) * INF)
    ELSE IF ~IsFinite(c) THEN c
    ELSE RoundF32(a * b + c * One, One)

\* a / b (a zero divisor is +0.0: the code divides only by a product of square roots)
f32_div(a, b) ==
    IF a = NAN \/ b = NAN THEN NAN
    ELSE IF ~IsFinite(a) THEN (IF ~IsFinite(b) THEN NAN ELSE Sgn(a) * Sgn(b) * INF)
    ELSE IF ~IsFinite(b) THEN 0
    ELSE IF b = 0 THEN (IF a = 0 THEN NAN ELSE Sgn(a) * INF)
    ELSE RoundF32(Sgn(b) * a * One, Abs(b))

ISqrt(n) == CHOOSE r \in 0..(2 ^ (Precision + MaxExp)) : r * r <= n /\ (r + 1) * (r + 1) > n

\* f32::sqrt, correctly rounded
f32_sqrt(a) ==
    IF a = NAN \/ a < 0 THEN NAN
    ELSE IF a = INF THEN INF
    ELSE LET n == a * One
             e == CHOOSE k \in 0..MaxExp :
                     /\ n < 4 ^ (Precision + k)
                     /\ (k = 0 \/ n >= 4 ^ (Precision + k - 1))
             fl == ISqrt(n \div 4 ^ e)
             mid == (2 * fl + 1) * (2 * fl + 1) * 4 ^ e
             m == IF 4 * n > mid \/ (4 * n = mid /\ fl % 2 = 1) THEN fl + 1 ELSE fl
         IN  m * 2 ^ e

\* f32::max and f32::min: a NaN operand is ignored
f32_max(a, b) == IF a = NAN THEN b ELSE IF b = NAN THEN a ELSE IF a > b THEN a ELSE b
f32_min(a, b) == IF a = NAN THEN b ELSE IF b = NAN THEN a ELSE IF a < b THEN a ELSE b

(* ------------------------------------------------------------------------ *)
(* Build-dependent behaviour of the `wide` lane type                        *)
(* ------------------------------------------------------------------------ *)

\* fused: f32x4::mul_add rounds once (hardware FMA) rather than after the
\*        multiplication and again after the addition (the portable fallback).
\* pairwise: f32x4::reduce_add adds the lanes as (l0 + l1) + (l2 + l3) rather
\*        than left to right.
\* Both are fixed by the target and the crate version, not by lib.rs.
VARIABLES fused, pairwise

simd_lanes == 4

ZERO == <<0, 0, 0, 0>>

\* f32::mul_add on one lane
lane_mul_add(a, b, c) ==
    IF fused THEN f32_fma(a, b, c) ELSE f32_add(f32_mul(a, b), c)

\* f32x4::mul_add(self, m, a), lane by lane
mul_add(a, b, c) ==
    << lane_mul_add(a[1], b[1], c[1]), lane_mul_add(a[2], b[2], c[2]),
       lane_mul_add(a[3], b[3], c[3]), lane_mul_add(a[4], b[4], c[4]) >>

\* F(v), with v evaluated once
Bind(v, F(_)) == CHOOSE r \in {F(y) : y \in {v}} : TRUE

\* f32x4::reduce_add
reduce_add(v) ==
    IF pairwise
    THEN Bind(<<f32_add(v[1], v[2]), f32_add(v[3], v[4])>>,
              LAMBDA h : f32_add(h[1], h[2]))
    ELSE Bind(f32_add(v[1], v[2]),
              LAMBDA s1 : Bind(f32_add(s1, v[3]), LAMBDA s2 : f32_add(s2, v[4])))

(* ------------------------------------------------------------------------ *)
(* Slices.  Indices are the code's: 0-based, ranges half-open.              *)
(* ------------------------------------------------------------------------ *)

\* &vec[lo..hi] is in bounds
SliceOk(vec, lo, hi) == 0 <= lo /\ lo <= hi /\ hi <= Len(vec)
\* &vec[lo..hi]
Slice(vec, lo, hi) == SubSeq(vec, lo + 1, hi)
\* vec[i] is in bounds
IndexOk(vec, i) == 0 <= i /\ i < Len(vec)
\* the indices lo, lo+1, ..., hi-1 in order
Range(lo, hi) == [k \in 1..(hi - lo) |-> lo + k - 1]

\* Mutant of SimdLen: the number of chunks taken for the length they cover.
SimdLen_chunks(len) == len \div simd_lanes

\* len - (len % simd_lanes)
SimdLen(len) == len - (len % simd_lanes)

(* ------------------------------------------------------------------------ *)
(* The reductions.  Each returns its sums, the indices it visited in order  *)
(* (visited) and whether an index or range fell outside a buffer (panic).   *)
(* A sum a reduction does not compute stays 0.                              *)
(* ------------------------------------------------------------------------ *)

\* The accumulators before the chunk loop, and a failed reduction.
Start == [dot |-> ZERO, norm_a |-> ZERO, norm_b |-> ZERO, visited |-> <<>>, panic |-> FALSE]
Panicked(acc) == [dot |-> 0, norm_a |-> 0, norm_b |-> 0, visited |-> acc.visited, panic |-> TRUE]

\* lines 30-34: one iteration of the chunk loop of dot_product_simd_only
dot_chunk(vec_a, vec_b, i, acc) ==
    IF ~SliceOk(vec_a, i, i + simd_lanes) \/ ~SliceOk(vec_b, i, i + simd_lanes)
    THEN [acc EXCEPT !.panic = TRUE]
    ELSE [acc EXCEPT !.dot = mul_add(Slice(vec_a, i, i + simd_lanes),
                                     Slice(vec_b, i, i + simd_lanes), acc.dot),
                     !.visited = acc.visited \o Range(i, i + simd_lanes)]

\* lines 28-35: the chunk loop of dot_product_simd_only from chunk start i
RECURSIVE dot_chunks(_, _, _, _, _)
dot_chunks(vec_a, vec_b, i, simd_len, acc) ==
    IF i >= simd_len \/ acc.panic THEN acc
    ELSE Bind(dot_chunk(vec_a, vec_b, i, acc),
              LAMBDA nxt : dot_chunks(vec_a, vec_b, i + simd_lanes, simd_len, nxt))

\* line 39: one iteration of the remainder loop of dot_product_simd_only
dot_rest(vec_a, vec_b, i, acc) ==
    IF ~IndexOk(vec_a, i) \/ ~IndexOk(vec_b, i) THEN [acc EXCEPT !.panic = TRUE]
    ELSE [acc EXCEPT !.dot = f32_add(acc.dot, f32_mul(vec_a[i + 1], vec_b[i + 1])),
                     !.visited = Append(acc.visited, i)]

\* lines 38-40: the remainder loop of dot_product_simd_only from index i
RECURSIVE dot_tail(_, _, _, _, _)
dot_tail(vec_a, vec_b, i, len, acc) ==
    IF i >= len \/ acc.panic THEN acc
    ELSE Bind(dot_rest(vec_a, vec_b, i, acc),
              LAMBDA nxt : dot_tail(vec_a, vec_b, i + 1, len, nxt))

\* Mutant of dot_product_simd_only: the remainder loop is missing.
dot_product_chunks_only(vec_a, vec_b) ==
    Bind(dot_chunks(vec_a, vec_b, 0, SimdLen(Len(vec_a)), Start),
         LAMBDA c : IF c.panic THEN Panicked(c)
                    ELSE [c EXCEPT !.dot = reduce_add(c.dot), !.norm_a = 0, !.norm_b = 0])

\* lines 22-42
dot_product_simd_only(vec_a, vec_b) ==
    Bind(dot_chunks(vec_a, vec_b, 0, SimdLen(Len(vec_a)), Start),
         LAMBDA c : IF c.panic THEN Panicked(c)
                    ELSE dot_tail(vec_a, vec_b, SimdLen(Len(vec_a)), Len(vec_a),
                                  [c EXCEPT !.dot = reduce_add(c.dot), !.norm_a = 0,
                                            !.norm_b = 0]))

\* lines 139-141: one iteration of the chunk loop of compute_norm_squared_simd
norm_chunk(vec, i, acc) ==
    IF ~SliceOk(vec, i, i + simd_lanes) THEN [acc EXCEPT !.panic = TRUE]
    ELSE [acc EXCEPT !.norm_a = mul_add(Slice(vec, i, i + simd_lanes),
                                        Slice(vec, i, i + simd_lanes), acc.norm_a),
                     !.visited = acc.visited \o Range(i, i + simd_lanes)]

\* lines 138-142: the chunk loop of compute_norm_squared_simd
RECURSIVE norm_chunks(_, _, _, _)
norm_chunks(vec, i, simd_len, acc) ==
    IF i >= simd_len \/ acc.panic THEN acc
    ELSE Bind(norm_chunk(vec, i, acc),
              LAMBDA nxt : norm_chunks(vec, i + simd_lanes, simd_len, nxt))

\* line 146: one iteration of the remainder loop of compute_norm_squared_simd
norm_rest(vec, i, acc) ==
    IF ~IndexOk(vec, i) THEN [acc EXCEPT !.panic = TRUE]
    ELSE [acc EXCEPT !.norm_a = f32_add(acc.norm_a, f32_mul(vec[i + 1], vec[i + 1])),
                     !.visited = Append(acc.visited, i)]

\* lines 145-147: the remainder loop of compute_norm_squared_simd
RECURSIVE norm_tail(_, _, _, _)
norm_tail(vec, i, len, acc) ==
    IF i >= len \/ acc.panic THEN acc
    ELSE Bind(norm_rest(vec, i, acc), LAMBDA nxt : norm_tail(vec, i + 1, len, nxt))

\* lines 132-149; the squared norm is in norm_a
compute_norm_squared_simd(vec) ==
    Bind(norm_chunks(vec, 0, SimdLen(Len(vec)), Start),
         LAMBDA c : IF c.panic THEN Panicked(c)
                    ELSE norm_tail(vec, SimdLen(Len(vec)), Len(vec),
                                   [c EXCEPT !.norm_a = reduce_add(c.norm_a), !.dot = 0,
                                             !.norm_b = 0]))

\* lines 162-168: one iteration of the chunk loop of dot_product_and_norm_simd
dot_norm_chunk(vec_a, vec_b, i, acc) ==
    IF ~SliceOk(vec_a, i, i + simd_lanes) \/ ~SliceOk(vec_b, i, i + simd_lanes)
    THEN [acc EXCEPT !.panic = TRUE]
    ELSE [acc EXCEPT !.dot = mul_add(Slice(vec_a, i, i + simd_lanes),
                                     Slice(vec_b, i, i + simd_lanes), acc.dot),
                     !.norm_a = mul_add(Slice(vec_a, i, i + simd_lanes),
                                        Slice(vec_a, i, i + simd_lanes), acc.norm_a),
                     !.visited = acc.visited \o Range(i, i + simd_lanes)]

\* lines 161-169: the chunk loop of dot_product_and_norm_simd
RECURSIVE dot_norm_chunks(_, _, _, _, _)
dot_norm_chunks(vec_a, vec_b, i, simd_len, acc) ==
    IF i >= simd_len \/ acc.panic THEN acc
    ELSE Bind(dot_norm_chunk(vec_a, vec_b, i, acc),
              LAMBDA nxt : dot_norm_chunks(vec_a, vec_b, i + simd_lanes, simd_len, nxt))

\* lines 175-176: one iteration of the remainder loop of dot_product_and_norm_simd
dot_norm_rest(vec_a, vec_b, i, acc) ==
    IF ~IndexOk(vec_a, i) \/ ~IndexOk(vec_b, i) THEN [acc EXCEPT !.panic = TRUE]
    ELSE [acc EXCEPT !.dot = f32_add(acc.dot, f32_mul(vec_a[i + 1], vec_b[i + 1])),
                     !.norm_a = f32_add(acc.norm_a, f32_mul(vec_a[i + 1], vec_a[i + 1])),
                     !.visited = Append(acc.visited, i)]

\* lines 174-177: the remainder loop of dot_product_and_norm_simd
RECURSIVE dot_norm_tail(_, _, _, _, _)
dot_norm_tail(vec_a, vec_b, i, len, acc) ==
    IF i >= len \/ acc.panic THEN acc
    ELSE Bind(dot_norm_rest(vec_a, vec_b, i, acc),
              LAMBDA nxt : dot_norm_tail(vec_a, vec_b, i + 1, len, nxt))

\* lines 153-179; the squared norm of vec_a is in norm_a
dot_product_and_norm_simd(vec_a, vec_b) ==
    Bind(dot_norm_chunks(vec_a, vec_b, 0, SimdLen(Len(vec_a)), Start),
         LAMBDA c : IF c.panic THEN Panicked(c)
                    ELSE dot_norm_tail(vec_a, vec_b, SimdLen(Len(vec_a)), Len(vec_a),
                                       [c EXCEPT !.dot = reduce_add(c.dot),
                                                 !.norm_a = reduce_add(c.norm_a),
                                                 !.norm_b = 0]))

\* lines 60-68: one iteration of the chunk loop of cosine_similarity
cosine_chunk(vec_a, vec_b, i, acc) ==
    IF ~SliceOk(vec_a, i, i + simd_lanes) \/ ~SliceOk(vec_b, i, i + simd_lanes)
    THEN [acc EXCEPT !.panic = TRUE]
    ELSE [acc EXCEPT !.dot = mul_add(Slice(vec_a, i, i + simd_lanes),
                                     Slice(vec_b, i, i + simd_lanes), acc.dot),
                     !.norm_a = mul_add(Slice(vec_a, i, i + simd_lanes),
                                        Slice(vec_a, i, i + simd_lanes), acc.norm_a),
                     !.norm_b = mul_add(Slice(vec_b, i, i + simd_lanes),
                                        Slice(vec_b, i, i + simd_lanes), acc.norm_b),
                     !.visited = acc.visited \o Range(i, i + simd_lanes)]

\* lines 59-69: the chunk loop of cosine_similarity
RECURSIVE cosine_chunks(_, _, _, _, _)
cosine_chunks(vec_a, vec_b, i, simd_len, acc) ==
    IF i >= simd_len \/ acc.panic THEN acc
    ELSE Bind(cosine_chunk(vec_a, vec_b, i, acc),
              LAMBDA nxt : cosine_chunks(vec_a, vec_b, i + simd_lanes, simd_len, nxt))

\* lines 78-80: one iteration of the remainder loop of cosine_similarity
cosine_rest(vec_a, vec_b, i, acc) ==
    IF ~IndexOk(vec_a, i) \/ ~IndexOk(vec_b, i) THEN [acc EXCEPT !.panic = TRUE]
    ELSE [acc EXCEPT !.dot = f32_add(acc.dot, f32_mul(vec_a[i + 1], vec_b[i + 1])),
                     !.norm_a = f32_add(acc.norm_a, f32_mul(vec_a[i + 1], vec_a[i + 1])),
                     !.norm_b = f32_add(acc.norm_b, f32_mul(vec_b[i + 1], vec_b[i + 1])),
                     !.visited = Append(acc.visited, i)]

\* lines 77-81: the remainder loop of cosine_similarity
RECURSIVE cosine_tail(_, _, _, _, _)
cosine_tail(vec_a, vec_b, i, len, acc) ==
    IF i >= len \/ acc.panic THEN acc
    ELSE Bind(cosine_rest(vec_a, vec_b, i, acc),
              LAMBDA nxt : cosine_tail(vec_a, vec_b, i + 1, len, nxt))

\* lines 50-81: the three sums of cosine_similarity in one pass
cosine_sums(vec_a, vec_b) ==
    Bind(cosine_chunks(vec_a, vec_b, 0, SimdLen(Len(vec_a)), Start),
         LAMBDA c : IF c.panic THEN Panicked(c)
                    ELSE cosine_tail(vec_a, vec_b, SimdLen(Len(vec_a)), Len(vec_a),
                                     [c EXCEPT !.dot = reduce_add(c.dot),
                                               !.norm_a = reduce_add(c.norm_a),
                                               !.norm_b = reduce_add(c.norm_b)]))

\* Mutant of clamp: the ratio is returned as computed.
clamp_dropped(x) == x

\* (x).max(-1.0).min(1.0)
clamp(x) == f32_min(f32_max(x, -One), One)

\* lines 84-93: the score from the three sums
cosine_score(dot_product, norm_a_sq, norm_b_sq) ==
    Bind(<<f32_sqrt(norm_a_sq), f32_sqrt(norm_b_sq)>>,
         LAMBDA norm : IF norm[1] = 0 \/ norm[2] = 0 THEN 0
                       ELSE Bind(f32_mul(norm[1], norm[2]),
                                 LAMBDA magnitude :
                                     Bind(f32_div(dot_product, magnitude),
                                          LAMBDA ratio : clamp(ratio))))

\* Mutant of cosine_similarity: only the empty input is rejected.
cosine_similarity_nonempty_only(vec_a, vec_b) ==
    IF Len(vec_a) = 0
    THEN [score |-> 0, visited |-> <<>>, panic |-> FALSE]
    ELSE Bind(cosine_sums(vec_a, vec_b),
              LAMBDA s : [score |-> IF s.panic THEN 0
                                    ELSE cosine_score(s.dot, s.norm_a, s.norm_b),
                          visited |-> s.visited, panic |-> s.panic])

\* lines 45-94.  score: the value returned; visited: the indices read.
cosine_similarity(vec_a, vec_b) ==
    IF Len(vec_a) # Len(vec_b) \/ Len(vec_a) = 0
    THEN [score |-> 0, visited |-> <<>>, panic |-> FALSE]
    ELSE Bind(cosine_sums(vec_a, vec_b),
              LAMBDA s : [score |-> IF s.panic THEN 0
                                    ELSE cosine_score(s.dot, s.norm_a, s.norm_b),
                          visited |-> s.visited, panic |-> s.panic])

(* ------------------------------------------------------------------------ *)
(* batch_similarity and similarity_matrix, pieces shared by their steps     *)
(* ------------------------------------------------------------------------ *)

\* Mutant of batch_shape_ok: the query length is not checked.
batch_shape_no_query(vectors, query, dim) ==
    /\ dim # 0
    /\ Len(vectors) % dim = 0

\* lines 98-100: the shape checks of batch_similarity, all passed
batch_shape_ok(vectors, query, dim) ==
    /\ dim # 0
    /\ Len(vectors) % dim = 0
    /\ Len(query) = dim

\* Mutant of matrix_shape_ok: only set A is checked.
matrix_shape_a_only(va, vb, dim) ==
    /\ dim # 0
    /\ Len(va) % dim = 0

\* line 184: the shape check of similarity_matrix, passed
matrix_shape_ok(va, vb, dim) ==
    /\ dim # 0
    /\ Len(va) % dim = 0
    /\ Len(vb) % dim = 0

\* Mutant of zero_query: the comparison is < instead of ==.
zero_query_negative(query_norm_sq) == query_norm_sq # NAN /\ query_norm_sq < 0

\* line 107: query_norm_sq == 0.0
zero_query(query_norm_sq) == query_norm_sq = 0

\* Mutant of zero_norm: the comparison is < instead of ==.
zero_norm_negative(norm) == norm # NAN /\ norm < 0

\* lines 215 and 228: norm_a == 0.0, norm_b == 0.0
zero_norm(norm) == norm = 0

\* Mutant of batch_score: the zero test on the candidate's norm is missing.
batch_score_no_guard(dot_product, vector_norm_sq, q_norm) ==
    Bind(f32_sqrt(vector_norm_sq),
         LAMBDA vector_norm :
             Bind(f32_mul(vector_norm, q_norm),
                  LAMBDA magnitude :
                      Bind(f32_div(dot_product, magnitude),
                           LAMBDA similarity : clamp(similarity))))

\* Mutant of batch_score: the query's norm stands in for the candidate's.
batch_score_query_norm(dot_product, vector_norm_sq, q_norm) ==
    IF vector_norm_sq = 0 THEN 0
    ELSE Bind(f32_mul(q_norm, q_norm),
              LAMBDA magnitude :
                  Bind(f32_div(dot_product, magnitude),
                       LAMBDA similarity : clamp(similarity)))

\* lines 119-125: the score of one candidate from its dot product and squared norm
batch_score(dot_product, vector_norm_sq, q_norm) ==
    IF vector_norm_sq = 0 THEN 0
    ELSE Bind(f32_sqrt(vector_norm_sq),
              LAMBDA vector_norm :
                  Bind(f32_mul(vector_norm, q_norm),
                       LAMBDA magnitude :
                           Bind(f32_div(dot_product, magnitude),
                                LAMBDA similarity : clamp(similarity))))

\* lines 235-238: the score of one cell from its dot product and the two norms
matrix_score(dot_product, norm_a, norm_b) ==
    Bind(f32_mul(norm_a, norm_b),
         LAMBDA magnitude :
             Bind(f32_div(dot_product, magnitude), LAMBDA similarity : clamp(similarity)))

\* vec![0.0; n]
Zeros(n) == [k \in 1..n |-> 0]

(* ------------------------------------------------------------------------ *)
(* Inputs                                                                   *)
(* ------------------------------------------------------------------------ *)

\* Longest buffer handed to cosine_similarity and to the reductions.
MaxLen == 9
\* Largest vector dimension of a batch or matrix call.
MaxDim == 5
\* Most vectors in the two buffers of a batch or matrix call together.
MaxVecs == 3

\* Element patterns, repeated cyclically to fill a vector of a flat buffer.
Patterns == {<<0>>, <<One>>, <<One, -One>>, <<-MaxFinite, NAN>>}
\* ... and to fill a single vector: a query, an argument of cosine_similarity.
WidePatterns == Patterns \cup {<<1>>, <<MaxFinite>>, <<3, -5, 7>>}

\* The vector of n elements that repeats pattern p.
Cyc(p, n) == [k \in 1..n |-> p[((k - 1) % Len(p)) + 1]]

\* The flat buffer of the vectors of dimension d that repeat the patterns ps.
RECURSIVE Flat(_, _)
Flat(ps, d) == IF ps = <<>> THEN <<>> ELSE Cyc(Head(ps), d) \o Flat(Tail(ps), d)

\* The sequences of n patterns.
PatSeqs(n) == [1..n -> Patterns]

(* ------------------------------------------------------------------------ *)
(* State                                                                    *)
(* ------------------------------------------------------------------------ *)

VARIABLES
    op,          \* the public operation called, "none" before a call
    pc,          \* where the call stands: idle, its loop, done, panic
    vectors_a,   \* first buffer: vec_a / vectors / vectors_a
    vectors_b,   \* second buffer: vec_b / query / vectors_b
    vector_dim,  \* vector_dim
    i, j,        \* loop indices
    norms_a,     \* similarity_matrix: norms_a
    norms_b,     \* similarity_matrix: norms_b
    query_norm,  \* batch_similarity: query_norm
    results,     \* the Vec<f32> returned by batch_similarity and similarity_matrix
    score,       \* the f32 returned by cosine_similarity
    trace,       \* the reduction calls made so far, in order
    reads,       \* element reads of each buffer so far
    red          \* the reductions applied to one pair of buffers

vars == <<fused, pairwise, op, pc, vectors_a, vectors_b, vector_dim, i, j,
          norms_a, norms_b, query_norm, results, score, trace, reads, red>>

build == <<fused, pairwise>>
locals == <<i, j, norms_a, norms_b, query_norm>>

\* num_a, num_b / num_vectors
num_a == Len(vectors_a) \div vector_dim
num_b == Len(vectors_b) \div vector_dim

Idle ==
    /\ op = "none" /\ pc = "idle"
    /\ vectors_a = <<>> /\ vectors_b = <<>> /\ vector_dim = 0
    /\ i = 0 /\ j = 0
    /\ norms_a = <<>> /\ norms_b = <<>> /\ query_norm = 0
    /\ results = <<>> /\ score = 0
    /\ trace = <<>> /\ reads = [a |-> 0, b |-> 0]
    /\ red = <<>>

Init == fused \in BOOLEAN /\ pairwise \in BOOLEAN /\ Idle

(* ------------------------------------------------------------------------ *)
(* cosine_similarity: one pass, one step                                    *)
(* ------------------------------------------------------------------------ *)

CosineSimilarity ==
    /\ pc = "idle"
    /\ \E p \in WidePatterns, q \in WidePatterns, n \in 0..MaxLen, m \in 0..MaxLen :
          /\ m \in {n - 1, n, n + 1}
          /\ \E r \in {cosine_similarity(Cyc(p, n), Cyc(q, m))} :
                 /\ vectors_a' = Cyc(p, n)
                 /\ vectors_b' = Cyc(q, m)
                 /\ score' = r.score
                 /\ reads' = [a |-> Len(r.visited), b |-> Len(r.visited)]
                 /\ trace' = IF r.visited # <<>> THEN <<<<"cosine">>>> ELSE <<>>
                 /\ pc' = IF r.panic THEN "panic" ELSE "done"
    /\ op' = "cosine_similarity"
    /\ UNCHANGED <<build, vector_dim, locals, results, red>>

(* ------------------------------------------------------------------------ *)
(* batch_similarity                                                         *)
(* ------------------------------------------------------------------------ *)

\* lines 97-110: the shape checks, the query norm and the zero-query return
BatchSimilarity ==
    /\ pc = "idle"
    /\ \E d \in 0..MaxDim, k \in 0..(MaxVecs - 1), extra \in 0..1, dim \in 0..(MaxDim + 1) :
       \E ps \in PatSeqs(k), q \in WidePatterns :
          /\ dim \in {0, d, d + 1}
          /\ \E vectors \in {Flat(ps, d) \o Cyc(<<One>>, extra)}, query \in {Cyc(q, d)} :
             \E n \in {IF batch_shape_ok(vectors, query, dim)
                        THEN compute_norm_squared_simd(query) ELSE Start} :
                 /\ vectors_a' = vectors
                 /\ vectors_b' = query
                 /\ vector_dim' = dim
                 /\ IF ~batch_shape_ok(vectors, query, dim)
                    THEN /\ results' = <<>>
                         /\ pc' = "done"
                         /\ UNCHANGED <<query_norm, trace, reads>>
                    ELSE /\ trace' = <<<<"norm_q">>>>
                         /\ reads' = [reads EXCEPT !.b = @ + Len(n.visited)]
                         /\ IF n.panic
                            THEN pc' = "panic" /\ UNCHANGED <<results, query_norm>>
                            ELSE IF zero_query(n.norm_a)
                            THEN /\ results' = Zeros(Len(vectors) \div dim)
                                 /\ pc' = "done"
                                 /\ UNCHANGED query_norm
                            ELSE /\ query_norm' = f32_sqrt(n.norm_a)
                                 /\ results' = <<>>
                                 /\ pc' = IF Len(vectors) \div dim > 0
                                          THEN "candidates" ELSE "done"
    /\ op' = "batch_similarity"
    /\ UNCHANGED <<build, i, j, norms_a, norms_b, score, red>>

\* lines 112-126: one iteration of the candidate loop
BatchCandidate ==
    /\ op = "batch_similarity" /\ pc = "candidates"
    /\ LET start == i * vector_dim
       IN  IF ~SliceOk(vectors_a, start, start + vector_dim)
           THEN pc' = "panic" /\ UNCHANGED <<results, trace, reads, i>>
           ELSE \E r \in {dot_product_and_norm_simd(
                               Slice(vectors_a, start, start + vector_dim), vectors_b)} :
                    /\ trace' = Append(trace, <<"dot_norm", i>>)
                    /\ reads' = [a |-> reads.a + Len(r.visited),
                                 b |-> reads.b + Len(r.visited)]
                    /\ IF r.panic
                       THEN pc' = "panic" /\ UNCHANGED <<results, i>>
                       ELSE /\ results' = Append(results,
                                              batch_score(r.dot, r.norm_a, query_norm))
                            /\ i' = i + 1
                            /\ pc' = IF i + 1 < num_a THEN "candidates" ELSE "done"
    /\ UNCHANGED <<build, op, vectors_a, vectors_b, vector_dim, j, norms_a, norms_b,
                   query_norm, score, red>>

(* ------------------------------------------------------------------------ *)
(* similarity_matrix                                                        *)
(* ------------------------------------------------------------------------ *)

\* The first loop with an iteration to run once the shape check has passed.
AfterCheck(na, nb) == IF na > 0 THEN "norms_a" ELSE IF nb > 0 THEN "norms_b" ELSE "done"
\* ... once the norms of set A are collected (na > 0).
AfterNormsA(nb) == IF nb > 0 THEN "norms_b" ELSE "rows"
\* ... once the norms of set B are collected.
AfterNormsB(na) == IF na > 0 THEN "rows" ELSE "done"
\* ... once row r is complete.
AfterRow(r, na) == IF r + 1 < na THEN "rows" ELSE "done"

\* lines 183-190: the shape check and the allocation of results
SimilarityMatrix ==
    /\ pc = "idle"
    /\ \E d \in 0..MaxDim, m \in 0..MaxVecs, n \in 0..MaxVecs, extra \in 0..1,
          dim \in 0..(MaxDim + 1) :
       \E pa \in PatSeqs(m), pb \in PatSeqs(n) :
          /\ m + n <= MaxVecs
          /\ dim \in {0, d, d + 1}
          /\ \E va \in {Flat(pa, d) \o Cyc(<<One>>, extra)}, vb \in {Flat(pb, d)} :
                 /\ vectors_a' = va
                 /\ vectors_b' = vb
                 /\ vector_dim' = dim
                 /\ pc' = IF ~matrix_shape_ok(va, vb, dim) THEN "done"
                          ELSE AfterCheck(Len(va) \div dim, Len(vb) \div dim)
    /\ op' = "similarity_matrix"
    /\ UNCHANGED <<build, locals, results, score, trace, reads, red>>

\* lines 193-199: one iteration of the map that collects norms_a
MatrixNormA ==
    /\ op = "similarity_matrix" /\ pc = "norms_a"
    /\ LET start == i * vector_dim
       IN  IF ~SliceOk(vectors_a, start, start + vector_dim)
           THEN pc' = "panic" /\ UNCHANGED <<i, norms_a, trace, reads>>
           ELSE \E n \in {compute_norm_squared_simd(
                               Slice(vectors_a, start, start + vector_dim))} :
                    /\ trace' = Append(trace, <<"norm_a", i>>)
                    /\ reads' = [reads EXCEPT !.a = @ + Len(n.visited)]
                    /\ IF n.panic
                       THEN pc' = "panic" /\ UNCHANGED <<i, norms_a>>
                       ELSE /\ norms_a' = Append(norms_a, f32_sqrt(n.norm_a))
                            /\ i' = IF i + 1 < num_a THEN i + 1 ELSE 0
                            /\ pc' = IF i + 1 < num_a THEN "norms_a" ELSE AfterNormsA(num_b)
    /\ UNCHANGED <<build, op, vectors_a, vectors_b, vector_dim, j, norms_b, query_norm,
                   results, score, red>>

\* lines 202-208: one iteration of the map that collects norms_b
MatrixNormB ==
    /\ op = "similarity_matrix" /\ pc = "norms_b"
    /\ LET start == j * vector_dim
       IN  IF ~SliceOk(vectors_b, start, start + vector_dim)
           THEN pc' = "panic" /\ UNCHANGED <<j, norms_b, trace, reads>>
           ELSE \E n \in {compute_norm_squared_simd(
                               Slice(vectors_b, start, start + vector_dim))} :
                    /\ trace' = Append(trace, <<"norm_b", j>>)
                    /\ reads' = [reads EXCEPT !.b = @ + Len(n.visited)]
                    /\ IF n.panic
                       THEN pc' = "panic" /\ UNCHANGED <<j, norms_b>>
                       ELSE /\ norms_b' = Append(norms_b, f32_sqrt(n.norm_a))
                            /\ j' = IF j + 1 < num_b THEN j + 1 ELSE 0
                            /\ pc' = IF j + 1 < num_b THEN "norms_b" ELSE AfterNormsB(num_a)
    /\ UNCHANGED <<build, op, vectors_a, vectors_b, vector_dim, i, norms_a, query_norm,
                   results, score, red>>

\* lines 210-221: the head of one iteration of the outer loop; a zero row whole
MatrixRow ==
    /\ op = "similarity_matrix" /\ pc = "rows"
    /\ LET start_a == i * vector_dim
       IN  IF ~SliceOk(vectors_a, start_a, start_a + vector_dim) \/ ~IndexOk(norms_a, i)
           THEN pc' = "panic" /\ UNCHANGED <<i, j, results>>
           ELSE IF zero_norm(norms_a[i + 1])
           THEN /\ results' = results \o Zeros(num_b)
                /\ i' = i + 1
                /\ j' = 0
                /\ pc' = AfterRow(i, num_a)
           ELSE IF num_b = 0
           THEN /\ i' = i + 1
                /\ pc' = AfterRow(i, num_a)
                /\ UNCHANGED <<j, results>>
           ELSE /\ j' = 0
                /\ pc' = "cells"
                /\ UNCHANGED <<i, results>>
    /\ UNCHANGED <<build, op, vectors_a, vectors_b, vector_dim, norms_a, norms_b,
                   query_norm, score, trace, reads, red>>

\* lines 223-240: one iteration of the inner loop
MatrixCell ==
    /\ op = "similarity_matrix" /\ pc = "cells"
    /\ LET start_a == i * vector_dim
           start_b == j * vector_dim
       IN  IF \/ ~SliceOk(vectors_a, start_a, start_a + vector_dim)
              \/ ~SliceOk(vectors_b, start_b, start_b + vector_dim)
              \/ ~IndexOk(norms_a, i)
              \/ ~IndexOk(norms_b, j)
           THEN pc' = "panic" /\ UNCHANGED <<i, j, results, trace, reads>>
           ELSE LET vec_a == Slice(vectors_a, start_a, start_a + vector_dim)
                    vec_b == Slice(vectors_b, start_b, start_b + vector_dim)
                    norm_a == norms_a[i + 1]
                    norm_b == norms_b[j + 1]
                    last == ~(j + 1 < num_b)
                IN  IF zero_norm(norm_b)
                    THEN /\ results' = Append(results, 0)
                         /\ j' = IF last THEN 0 ELSE j + 1
                         /\ i' = IF last THEN i + 1 ELSE i
                         /\ pc' = IF last THEN AfterRow(i, num_a) ELSE "cells"
                         /\ UNCHANGED <<trace, reads>>
                    ELSE \E r \in {dot_product_simd_only(vec_a, vec_b)} :
                         /\ trace' = Append(trace, <<"dot", i, j>>)
                         /\ reads' = [a |-> reads.a + Len(r.visited),
                                      b |-> reads.b + Len(r.visited)]
                         /\ IF r.panic
                            THEN pc' = "panic" /\ UNCHANGED <<i, j, results>>
                            ELSE /\ results' = Append(results,
                                                   matrix_score(r.dot, norm_a, norm_b))
                                 /\ j' = IF last THEN 0 ELSE j + 1
                                 /\ i' = IF last THEN i + 1 ELSE i
                                 /\ pc' = IF last THEN AfterRow(i, num_a) ELSE "cells"
    /\ UNCHANGED <<build, op, vectors_a, vectors_b, vector_dim, norms_a, norms_b,
                   query_norm, score, red>>

(* ------------------------------------------------------------------------ *)
(* Return and the next call                                                 *)
(* ------------------------------------------------------------------------ *)

\* The call has returned; SIMDMath keeps nothing from it.
Return ==
    /\ pc = "done"
    /\ op' = "none" /\ pc' = "idle"
    /\ vectors_a' = <<>> /\ vectors_b' = <<>> /\ vector_dim' = 0
    /\ i' = 0 /\ j' = 0
    /\ norms_a' = <<>> /\ norms_b' = <<>> /\ query_norm' = 0
    /\ results' = <<>> /\ score' = 0
    /\ trace' = <<>> /\ reads' = [a |-> 0, b |-> 0]
    /\ UNCHANGED <<build, red>>

(* ------------------------------------------------------------------------ *)
(* The reductions on their own: one pair of equal-length buffers, each      *)
(* reduction applied to it                                                  *)
(* ------------------------------------------------------------------------ *)

InitReduce ==
    /\ fused \in BOOLEAN /\ pairwise \in BOOLEAN
    /\ \E p \in WidePatterns, q \in WidePatterns, n \in 0..MaxLen :
          vectors_a = Cyc(p, n) /\ vectors_b = Cyc(q, n)
    /\ op = "none" /\ pc = "reduce"
    /\ vector_dim = 0
    /\ i = 0 /\ j = 0
    /\ norms_a = <<>> /\ norms_b = <<>> /\ query_norm = 0
    /\ results = <<>> /\ score = 0
    /\ trace = <<>> /\ reads = [a |-> 0, b |-> 0]
    /\ red = <<>>

ReduceDot ==
    /\ pc = "reduce"
    /\ \E r \in {dot_product_simd_only(vectors_a, vectors_b)} :
          red' = [fn |-> "dot_product_simd_only", dot |-> r.dot, norm_a |-> r.norm_a,
                  norm_b |-> r.norm_b, visited |-> r.visited, panic |-> r.panic]
    /\ UNCHANGED <<build, op, pc, vectors_a, vectors_b, vector_dim, locals, results,
                   score, trace, reads>>

ReduceDotNorm ==
    /\ pc = "reduce"
    /\ \E r \in {dot_product_and_norm_simd(vectors_a, vectors_b)} :
          red' = [fn |-> "dot_product_and_norm_simd", dot |-> r.dot, norm_a |-> r.norm_a,
                  norm_b |-> r.norm_b, visited |-> r.visited, panic |-> r.panic]
    /\ UNCHANGED <<build, op, pc, vectors_a, vectors_b, vector_dim, locals, results,
                   score, trace, reads>>

ReduceNorm ==
    /\ pc = "reduce"
    /\ \E r \in {compute_norm_squared_simd(vectors_a)} :
          red' = [fn |-> "compute_norm_squared_simd", dot |-> r.dot, norm_a |-> r.norm_a,
                  norm_b |-> r.norm_b, visited |-> r.visited, panic |-> r.panic]
    /\ UNCHANGED <<build, op, pc, vectors_a, vectors_b, vector_dim, locals, results,
                   score, trace, reads>>

ReduceCosine ==
    /\ pc = "reduce"
    /\ \E r \in {cosine_sums(vectors_a, vectors_b)} :
          red' = [fn |-> "cosine_similarity", dot |-> r.dot, norm_a |-> r.norm_a,
                  norm_b |-> r.norm_b, visited |-> r.visited, panic |-> r.panic]
    /\ UNCHANGED <<build, op, pc, vectors_a, vectors_b, vector_dim, locals, results,
                   score, trace, reads>>

NextReduce ==
    \/ ReduceDot
    \/ ReduceDotNorm
    \/ ReduceNorm
    \/ ReduceCosine

SpecReduce == InitReduce /\ [][NextReduce]_vars

Next ==
    \/ CosineSimilarity
    \/ BatchSimilarity
    \/ BatchCandidate
    \/ SimilarityMatrix
    \/ MatrixNormA
    \/ MatrixNormB
    \/ MatrixRow
    \/ MatrixCell
    \/ Return

Spec == Init /\ [][Next]_vars

(* ------------------------------------------------------------------------ *)
(* Vocabulary of the properties                                             *)
(* ------------------------------------------------------------------------ *)

NoReads == [a |-> 0, b |-> 0]
\* A valid cosine value.
InRange(v) == v # NAN /\ -One <= v /\ v <= One
AllZero(vec) == \A k \in DOMAIN vec : vec[k] = 0
HasNaN(vec) == \E k \in DOMAIN vec : vec[k] = NAN
\* The k-th vector (from 0) of a flat buffer of vectors of dimension dim.
Vector(buf, k, dim) == SubSeq(buf, k * dim + 1, k * dim + dim)
RowA(k) == Vector(vectors_a, k, vector_dim)
RowB(k) == Vector(vectors_b, k, vector_dim)
\* The shapes the two operations accept, as the interface states them.
BatchShape ==
    vector_dim > 0 /\ Len(vectors_a) % vector_dim = 0 /\ Len(vectors_b) = vector_dim
MatrixShape ==
    vector_dim > 0 /\ Len(vectors_a) % vector_dim = 0 /\ Len(vectors_b) % vector_dim = 0
InCosine == op = "cosine_similarity"
InBatch == op = "batch_similarity"
InMatrix == op = "similarity_matrix"
Returned == pc = "done"

(* ------------------------------------------------------------------------ *)
(* Properties                                                               *)
(* ------------------------------------------------------------------------ *)

\* C1: every score returned by cosine_similarity and every element collected by
\* batch_similarity and similarity_matrix lies in [-1.0, 1.0] and is neither
\* NaN nor infinite, whatever the buffers hold.
C1_ScoresInRange ==
    /\ InRange(score)
    /\ \A k \in DOMAIN results : InRange(results[k])

\* A matrix over a buffer holding NaN has returned a clamped score.
C1_Witness ==
    /\ InMatrix /\ Returned
    /\ HasNaN(vectors_a)
    /\ \E k \in DOMAIN results : results[k] = -One

\* C2: a pair with an all-zero vector on either side scores exactly 0.0, in
\* cosine_similarity, for each zero candidate (and under a zero query) of
\* batch_similarity, and in every cell of a zero A-row or zero B-column of
\* similarity_matrix.
C2_ZeroVectorScoresZero ==
    /\ (InCosine /\ Returned /\ (AllZero(vectors_a) \/ AllZero(vectors_b)))
          => score = 0
    /\ (InBatch /\ Returned /\ BatchShape)
          => /\ Len(results) = num_a
             /\ \A k \in 0..(num_a - 1) :
                   (AllZero(RowA(k)) \/ AllZero(vectors_b)) => results[k + 1] = 0
    /\ (InMatrix /\ Returned /\ MatrixShape)
          => /\ Len(results) = num_a * num_b
             /\ \A r \in 0..(num_a - 1), c \in 0..(num_b - 1) :
                   (AllZero(RowA(r)) \/ AllZero(RowB(c)))
                      => results[r * num_b + c + 1] = 0

\* A batch has returned with a zero candidate next to a candidate scored non-zero.
C2_Witness ==
    /\ InBatch /\ Returned /\ BatchShape
    /\ vector_dim > simd_lanes
    /\ \E k \in 0..(num_a - 1) : AllZero(RowA(k))
    /\ \E k \in DOMAIN results : results[k] # 0

\* C3: for a valid shape similarity_matrix returns numA * numB scores, row-major,
\* and the score at i * numB + j is cosine_similarity(A[i], B[j]).
C3_MatrixMatchesPairs ==
    (InMatrix /\ Returned /\ MatrixShape)
       => /\ Len(results) = num_a * num_b
          /\ \A r \in 0..(num_a - 1), c \in 0..(num_b - 1) :
                results[r * num_b + c + 1] = cosine_similarity(RowA(r), RowB(c)).score

\* A matrix of two rows of dimension 5 has returned two different non-zero scores.
C3_Witness ==
    /\ InMatrix /\ Returned /\ MatrixShape
    /\ vector_dim = simd_lanes + 1
    /\ Len(results) = 2 /\ num_a = 2
    /\ results[1] # 0 /\ results[2] # 0 /\ results[1] # results[2]

\* C4: batch_similarity returns an empty sequence when dim is zero, len(vectors)
\* is not divisible by dim or len(query) != dim, and similarity_matrix when dim
\* is zero or either length is not divisible by dim; no reduction runs and no
\* element is read, also when the query is zero.
C4_InvalidShapeEmpty ==
    /\ (InBatch /\ (\/ vector_dim = 0
                    \/ Len(vectors_a) % vector_dim # 0
                    \/ Len(vectors_b) # vector_dim))
          => Returned /\ results = <<>> /\ trace = <<>> /\ reads = NoReads
    /\ (InMatrix /\ (\/ vector_dim = 0
                     \/ Len(vectors_a) % vector_dim # 0
                     \/ Len(vectors_b) % vector_dim # 0))
          => Returned /\ results = <<>> /\ trace = <<>> /\ reads = NoReads

\* A batch of more than one vector's worth of data, not divisible by the
\* dimension, with a zero query of the right length, has returned.
C4_Witness ==
    /\ InBatch /\ Returned
    /\ vector_dim > 0 /\ Len(vectors_b) = vector_dim /\ AllZero(vectors_b)
    /\ Len(vectors_a) > vector_dim /\ Len(vectors_a) % vector_dim # 0

\* C5: cosine_similarity returns 0.0 when the lengths differ or the inputs are
\* empty, having read no element.
C5_LengthMismatchZero ==
    (InCosine /\ (Len(vectors_a) # Len(vectors_b) \/ Len(vectors_a) = 0))
       => Returned /\ score = 0 /\ reads = NoReads /\ trace = <<>>

\* cosine_similarity has returned on non-zero buffers of lengths 5 and 4.
C5_Witness ==
    /\ InCosine /\ Returned
    /\ Len(vectors_a) = Len(vectors_b) + 1 /\ Len(vectors_b) = simd_lanes
    /\ ~AllZero(vectors_a) /\ ~AllZero(vectors_b)

\* C6: for a valid shape and a query of zero norm, batch_similarity returns
\* K = len(vectors) / dim zeros and has read no candidate element.
C6_ZeroQueryZeros ==
    (InBatch /\ BatchShape /\ compute_norm_squared_simd(vectors_b).norm_a = 0)
       => /\ Returned
          /\ results = Zeros(Len(vectors_a) \div vector_dim)
          /\ reads.a = 0
          /\ trace = <<<<"norm_q">>>>

\* A batch of two non-zero candidates under a zero query has returned.
C6_Witness ==
    /\ InBatch /\ Returned /\ BatchShape
    /\ num_a = 2 /\ ~AllZero(RowA(0)) /\ ~AllZero(RowA(1))
    /\ AllZero(vectors_b)
    /\ results = <<0, 0>>

\* The scalar sum of the products x[k] * y[k] from index k on, left to right.
RECURSIVE NaiveSum(_, _, _, _)
NaiveSum(x, y, k, acc) ==
    IF k > Len(x) THEN acc
    ELSE Bind(f32_add(acc, f32_mul(x[k], y[k])),
              LAMBDA nxt : NaiveSum(x, y, k + 1, nxt))

\* The sum of |x[k] * y[k]| as an integer, unrounded.
RECURSIVE AbsProducts(_, _, _)
AbsProducts(x, y, k) ==
    IF k > Len(x) THEN 0 ELSE Abs(x[k] * y[k]) + AbsProducts(x, y, k + 1)

\* No sum of products of x and y rounds, in whatever order it is taken: the
\* elements are finite, and for some power of two s every product is a
\* multiple of s and all of them together stay within 2^Precision * s.
Exact(x, y) ==
    /\ \A k \in DOMAIN x : IsFinite(x[k]) /\ IsFinite(y[k])
    /\ AbsProducts(x, y, 1) <= MaxFinite * One
    /\ \E e \in 0..(MaxExp + FracBits) :
          /\ \A k \in DOMAIN x : (x[k] * y[k]) % (One * 2 ^ e) = 0
          /\ AbsProducts(x, y, 1) <= (2 ^ Precision) * One * 2 ^ e

\* The sums the reduction recorded in red computes: dot, norm_a, norm_b.
Computes ==
    [dot    |-> red.fn # "compute_norm_squared_simd",
     norm_a |-> red.fn # "dot_product_simd_only",
     norm_b |-> red.fn = "cosine_similarity"]

\* The reduction recorded in red visited every index of [0, L) once, in order.
VisitsEachOnce == ~red.panic /\ red.visited = Range(0, Len(vectors_a))

\* C7 as stated: every reduction visits each index of [0, L) exactly once,
\* chunks first and the remainder after, and its result equals the naive
\* scalar sum of the per-element products.
C7_Original ==
    red # <<>> =>
       /\ VisitsEachOnce
       /\ Computes.dot => red.dot = NaiveSum(vectors_a, vectors_b, 1, 0)
       /\ Computes.norm_a => red.norm_a = NaiveSum(vectors_a, vectors_a, 1, 0)
       /\ Computes.norm_b => red.norm_b = NaiveSum(vectors_b, vectors_b, 1, 0)

\* C7, amended: every reduction visits each index of [0, L) exactly once, chunks
\* first and the remainder after; its result equals the naive scalar sum when
\* L is below the lane width or when no sum of the products rounds.
C7_VisitsOnceExactSum ==
    red # <<>> =>
       /\ VisitsEachOnce
       /\ (Computes.dot /\ (Len(vectors_a) < simd_lanes \/ Exact(vectors_a, vectors_b)))
             => red.dot = NaiveSum(vectors_a, vectors_b, 1, 0)
       /\ (Computes.norm_a /\ (Len(vectors_a) < simd_lanes \/ Exact(vectors_a, vectors_a)))
             => red.norm_a = NaiveSum(vectors_a, vectors_a, 1, 0)
       /\ (Computes.norm_b /\ (Len(vectors_a) < simd_lanes \/ Exact(vectors_b, vectors_b)))
             => red.norm_b = NaiveSum(vectors_b, vectors_b, 1, 0)

\* The combined pass has run over a buffer of chunks and a remainder whose
\* products sum to a non-zero value without rounding.
C7_Witness ==
    /\ red # <<>>
    /\ red.fn = "dot_product_and_norm_simd"
    /\ Len(vectors_a) > simd_lanes /\ Len(vectors_a) % simd_lanes # 0
    /\ Exact(vectors_a, vectors_a) /\ Exact(vectors_a, vectors_b)
    /\ red.norm_a # 0 /\ red.dot # 0

\* The reductions a returned batch call has run: the query's norm once, then,
\* unless the query is zero, the combined pass once per candidate in order.
BatchTraceOk ==
    /\ Len(trace) \in {1, num_a + 1}
    /\ trace[1] = <<"norm_q">>
    /\ \A k \in 2..Len(trace) : trace[k] = <<"dot_norm", k - 2>>

\* C8: for a valid shape batch_similarity returns K = len(vectors) / dim scores
\* in candidate order, the i-th equal to cosine_similarity(candidate_i, query);
\* the query's norm is computed once and the combined pass run once per candidate.
C8_BatchMatchesPairs ==
    (InBatch /\ Returned /\ BatchShape)
       => /\ Len(results) = Len(vectors_a) \div vector_dim
          /\ \A k \in 0..(num_a - 1) :
                results[k + 1] = cosine_similarity(RowA(k), vectors_b).score
          /\ BatchTraceOk

\* A batch of two candidates of dimension 5 has returned two different
\* non-zero scores.
C8_Witness ==
    /\ InBatch /\ Returned /\ BatchShape
    /\ vector_dim = simd_lanes + 1 /\ num_a = 2
    /\ Len(results) = 2
    /\ results[1] # 0 /\ results[2] # 0 /\ results[1] # results[2]

\* The dot product of cell (r, c) is in the trace.
DotDone(r, c) == \E k \in DOMAIN trace : trace[k] = <<"dot", r, c>>

\* C9: in a similarity_matrix call on M and N vectors the M + N norms are each
\* computed once, all before the first dot product; a dot product is computed
\* at most once per cell, only for cells whose two norms are non-zero, and by
\* the return for every such cell.
C9_NormsOnceThenDots ==
    (InMatrix /\ MatrixShape) =>
       LET M == Len(vectors_a) \div vector_dim
           N == Len(vectors_b) \div vector_dim
       IN  /\ \A k \in DOMAIN trace :
                 /\ k <= M => trace[k] = <<"norm_a", k - 1>>
                 /\ (M < k /\ k <= M + N) => trace[k] = <<"norm_b", k - M - 1>>
                 /\ k > M + N =>
                       /\ trace[k][1] = "dot"
                       /\ trace[k][2] \in 0..(M - 1) /\ trace[k][3] \in 0..(N - 1)
                       /\ norms_a[trace[k][2] + 1] # 0
                       /\ norms_b[trace[k][3] + 1] # 0
           /\ \A k1 \in DOMAIN trace, k2 \in DOMAIN trace :
                 k1 # k2 => trace[k1] # trace[k2]
           /\ Returned =>
                 /\ Len(norms_a) = M /\ Len(norms_b) = N
                 /\ Len(trace) >= M + N
                 /\ \A r \in 0..(M - 1), c \in 0..(N - 1) :
                       (norms_a[r + 1] # 0 /\ norms_b[c + 1] # 0) => DotDone(r, c)

\* A matrix with a zero row and a non-zero row has returned, one dot product
\* computed for the cell of the non-zero row.
C9_Witness ==
    /\ InMatrix /\ Returned /\ MatrixShape
    /\ num_a = 2 /\ num_b = 1
    /\ norms_a[1] = 0 /\ norms_a[2] # 0 /\ norms_b[1] # 0
    /\ trace = << <<"norm_a", 0>>, <<"norm_a", 1>>, <<"norm_b", 0>>, <<"dot", 1, 0>> >>

====
